---- MODULE Spec2Model ----
(***************************************************************************)
(* Kitchen inventory assistant: the tool-routing agent loop               *)
(* (src/src/agent.py), its tool handlers (src/src/tools.py) and the        *)
(* retriever calls they make (src/src/vector_store.py).                    *)
(*                                                                         *)
(* Text is a sequence of lexical units.  A unit is one character           *)
(* (a brace, a quote, a blank, a digit, an operator ...) or one whole word *)
(* of word characters (an identifier such as search_inventory) or one of   *)
(* the two markers TOOL: and PARAMETERS: in some letter case.  A Python    *)
(* value is a record [t, s]: its type tag and, for a string or a number,   *)
(* its units.                                                              *)
(***************************************************************************)
EXTENDS Integers, Sequences, FiniteSets, TLC

VARIABLES
    pc,                     \* position of process_query: idle, select, dispatch, synth, append, ret
    user_query,             \* the argument of the running process_query call
    tool_decision,          \* result of the first call_llm
    tool_result,            \* tool_result of process_query
    final_prompt,           \* final_prompt handed to the second call_llm
    final_response,         \* result of the second call_llm
    conversation_history,   \* self.conversation_history
    outcome,                \* how the last call ended: none, returned, raised, interrupted
    retval,                 \* the value the last call returned
    llm_calls,              \* outcomes of the requests.post calls of this turn, in order
    tool_runs,              \* names of the handlers run in this turn, in order
    parses,                 \* number of parse_tool_call runs in this turn
    completed,              \* the {user, agent} pairs of the calls that returned, in order
    intent,                 \* function harness: the ToolIntent to serialize
    text,                   \* function harness: the argument text
    docs,                   \* function harness: the retriever's document sequence
    res,                    \* function harness: the result
    henv,                   \* function harness: what the services did during execute_tool
    out,                    \* function harness: the result of execute_tool
    stage                   \* function harness: position

vars == <<pc, user_query, tool_decision, tool_result, final_prompt, final_response,
          conversation_history, outcome, retval, llm_calls, tool_runs, parses,
          completed, intent, text, docs, res, henv, out, stage>>

agentVars == <<pc, user_query, tool_decision, tool_result, final_prompt, final_response,
               conversation_history, outcome, retval, llm_calls, tool_runs, parses,
               completed>>

harnessVars == <<intent, text, res, henv, out, stage>>

(***************************************************************************)
(* Python values                                                           *)
(***************************************************************************)
PyStr(s) == [t |-> "str", s |-> s]

PyNum(s) == [t |-> "num", s |-> s]

PyNone == [t |-> "none", s |-> <<>>]

PyTrue == [t |-> "bool", s |-> <<"true">>]

PyFalse == [t |-> "bool", s |-> <<"false">>]

\* Python truthiness of a JSON scalar: "", 0, None and False are falsy.
Truthy(v) ==
    CASE v.t = "str" -> v.s # <<>>
      [] v.t = "num" -> \E i \in 1..Len(v.s) : v.s[i] \notin {"0", ".", "-"}
      [] v.t = "none" -> FALSE
      [] OTHER -> v = PyTrue

EmptyDict == [k \in {} |-> PyNone]

\* dict.get(key) with the default None
DictGet(d, key) == IF key \in DOMAIN d THEN d[key] ELSE PyNone

(***************************************************************************)
(* Lexical units                                                           *)
(***************************************************************************)
Quote == "\""

Backslash == "\\"

Newline == "\n"

Whitespace == {" ", Newline}

Digits == {"0", "1", "2", "3", "4", "5", "6", "7", "8", "9"}

Letters == {"a", "x", "n", "null", "true", "false", "query", "item", "search_term", "search",
            "expression", "calculation", "search_inventory", "calculate", "web_search",
            "generate_monthly_report", "Calculate", "WEB_SEARCH", "bogus",
            "olive", "oil", "flour", "suppliers", "Flour"}

\* \w of the re module
WordChars == Digits \cup Letters

\* str.lower(), unit by unit
Lower(u) ==
    CASE u = "TOOL:" -> "tool:"
      [] u = "Tool:" -> "tool:"
      [] u = "PARAMETERS:" -> "parameters:"
      [] u = "Parameters:" -> "parameters:"
      [] u = "Calculate" -> "calculate"
      [] u = "WEB_SEARCH" -> "web_search"
      [] u = "Flour" -> "flour"
      [] OTHER -> u

LowerStr(s) == [i \in 1..Len(s) |-> Lower(s[i])]

Min(S) == CHOOSE i \in S : \A j \in S : i <= j

\* first index at or after i that holds no unit of cs (Len(s)+1 when none)
SkipChars(s, i, cs) == Min({j \in i..(Len(s) + 1) : j = Len(s) + 1 \/ s[j] \notin cs})

\* first index at or after i that holds a unit of cs (Len(s)+1 when none)
FindChar(s, i, cs) == Min({j \in i..(Len(s) + 1) : j = Len(s) + 1 \/ s[j] \in cs})

\* s[i..j-1]
Slice(s, i, j) == SubSeq(s, i, j - 1)

\* str.strip(chars): drop the leading and the trailing units that are in cs
Strip(s, cs) ==
    LET a == SkipChars(s, 1, cs)
        ends == {j \in 0..Len(s) : j = 0 \/ s[j] \notin cs}
        b == CHOOSE j \in ends : \A k \in ends : k <= j
    IN  IF a > b THEN <<>> ELSE SubSeq(s, a, b)

\* needle occurs in s as a contiguous run
Contains(s, needle) ==
    \E i \in 1..(Len(s) - Len(needle) + 1) : SubSeq(s, i, i + Len(needle) - 1) = needle

(***************************************************************************)
(* json.loads on a brace block: an object of string keys and scalar values *)
(***************************************************************************)
JsonFail == [ok |-> FALSE, pos |-> 0, val |-> PyNone]

Escapes == {Quote, Backslash, "/", "n"}

Unescape(u) == IF u = "n" THEN Newline ELSE u

RECURSIVE JsonString(_, _, _)
\* the string whose opening quote is before index i; acc is what was read so far
JsonString(s, i, acc) ==
    IF i > Len(s) THEN JsonFail
    ELSE IF s[i] = Quote THEN [ok |-> TRUE, pos |-> i + 1, val |-> PyStr(acc)]
    ELSE IF s[i] = Backslash
         THEN IF i + 1 <= Len(s) /\ s[i + 1] \in Escapes
              THEN JsonString(s, i + 2, Append(acc, Unescape(s[i + 1])))
              ELSE JsonFail
    ELSE IF s[i] = Newline THEN JsonFail
    ELSE JsonString(s, i + 1, Append(acc, s[i]))

\* a number: 0 or a digit run without a leading zero, then an optional fraction
JsonNumber(s, i) ==
    LET e == IF s[i] = "0" THEN i + 1 ELSE SkipChars(s, i, Digits)
        f == IF e + 1 <= Len(s) /\ s[e] = "." /\ s[e + 1] \in Digits
             THEN SkipChars(s, e + 1, Digits) ELSE e
    IN  [ok |-> TRUE, pos |-> f, val |-> PyNum(Slice(s, i, f))]

JsonValue(s, i) ==
    IF i > Len(s) THEN JsonFail
    ELSE IF s[i] = Quote THEN JsonString(s, i + 1, <<>>)
    ELSE IF s[i] \in Digits THEN JsonNumber(s, i)
    ELSE IF s[i] = "null" THEN [ok |-> TRUE, pos |-> i + 1, val |-> PyNone]
    ELSE IF s[i] = "true" THEN [ok |-> TRUE, pos |-> i + 1, val |-> PyTrue]
    ELSE IF s[i] = "false" THEN [ok |-> TRUE, pos |-> i + 1, val |-> PyFalse]
    ELSE JsonFail

RECURSIVE JsonMembers(_, _, _)
\* the members of an object from index i (a key is expected there); acc is the
\* mapping read so far, a later duplicate key replacing an earlier one
JsonMembers(s, i, acc) ==
    IF i > Len(s) \/ s[i] # Quote THEN JsonFail
    ELSE LET k == JsonString(s, i + 1, <<>>)
         IN  IF ~k.ok THEN JsonFail
             ELSE LET c == SkipChars(s, k.pos, Whitespace)
                  IN  IF c > Len(s) \/ s[c] # ":" THEN JsonFail
                      ELSE LET v == JsonValue(s, SkipChars(s, c + 1, Whitespace))
                           IN  IF ~v.ok THEN JsonFail
                               ELSE LET d == SkipChars(s, v.pos, Whitespace)
                                        m == (k.val.s :> v.val) @@ acc
                                    IN  IF d > Len(s) THEN JsonFail
                                        ELSE IF s[d] = "}"
                                             THEN [ok |-> TRUE, pos |-> d + 1, val |-> m]
                                        ELSE IF s[d] = ","
                                             THEN JsonMembers(s, SkipChars(s, d + 1, Whitespace), m)
                                        ELSE JsonFail

\* json.loads(param_str): ok is FALSE where it raises JSONDecodeError
json_loads(s) ==
    IF Len(s) = 0 \/ s[1] # "{" THEN JsonFail
    ELSE LET i == SkipChars(s, 2, Whitespace)
             r == IF i <= Len(s) /\ s[i] = "}"
                  THEN [ok |-> TRUE, pos |-> i + 1, val |-> EmptyDict]
                  ELSE JsonMembers(s, i, EmptyDict)
         IN  IF r.ok /\ r.pos = Len(s) + 1 THEN r ELSE JsonFail

(***************************************************************************)
(* KitchenInventoryAgent.parse_tool_call                                   *)
(***************************************************************************)
\* re.search(r'TOOL:\s*(\w+)', ..., re.IGNORECASE): the leftmost marker that blanks
\* and then a word character follow; 0 when there is none
ToolMatchAt(s) ==
    LET hits == {i \in 1..Len(s) :
                    /\ Lower(s[i]) = "tool:"
                    /\ LET w == SkipChars(s, i + 1, Whitespace)
                       IN  w <= Len(s) /\ s[w] \in WordChars}
    IN  IF hits = {} THEN 0 ELSE Min(hits)

\* group(1) of the tool match: the maximal run of word characters
ToolGroup(s, i) ==
    LET w == SkipChars(s, i + 1, Whitespace)
    IN  Slice(s, w, SkipChars(s, w, WordChars))

\* re.search(r'PARAMETERS:\s*({.*?})', ..., re.DOTALL | re.IGNORECASE): the leftmost
\* marker that blanks, an opening brace and, anywhere later, a closing brace follow
ParamsMatchAt(s) ==
    LET hits == {i \in 1..Len(s) :
                    /\ Lower(s[i]) = "parameters:"
                    /\ LET b == SkipChars(s, i + 1, Whitespace)
                       IN  /\ b <= Len(s)
                           /\ s[b] = "{"
                           /\ FindChar(s, b + 1, {"}"}) <= Len(s)}
    IN  IF hits = {} THEN 0 ELSE Min(hits)

\* group(1) of the parameters match: from the opening brace to the first closing brace
ParamsGroup(s, i) ==
    LET b == SkipChars(s, i + 1, Whitespace)
    IN  SubSeq(s, b, FindChar(s, b + 1, {"}"}))

NoToolCall == [found |-> FALSE, tool |-> <<>>, parameters |-> EmptyDict]

\* the fallback without the stripping
FallbackParamsRaw(param_str) == (<<"query">> :> PyStr(param_str))

\* the except branch: params = {"query": param_str.strip('{}').strip()}
FallbackParams(param_str) ==
    (<<"query">> :> PyStr(Strip(Strip(param_str, {"{", "}"}), Whitespace)))

parse_tool_call(llm_response) ==
    LET tm == ToolMatchAt(llm_response)
        pm == ParamsMatchAt(llm_response)
    IN  IF tm = 0 THEN NoToolCall
        ELSE [found |-> TRUE,
              tool |-> LowerStr(ToolGroup(llm_response, tm)),
              parameters |->
                  IF pm = 0 THEN EmptyDict
                  ELSE LET param_str == ParamsGroup(llm_response, pm)
                           j == json_loads(param_str)
                       IN  IF j.ok THEN j.val ELSE FallbackParams(param_str)]

(***************************************************************************)
(* eval(safe_expr): Python's expression syntax and arithmetic over the     *)
(* characters the sanitizer of calculate lets through.  Numbers are exact  *)
(* rationals n/d; a power with a fractional exponent is kept as kind irr   *)
(* (some non-zero real) or complex.                                        *)
(***************************************************************************)
DigitValue(u) ==
    CASE u = "0" -> 0 [] u = "1" -> 1 [] u = "2" -> 2 [] u = "3" -> 3 [] u = "4" -> 4
      [] u = "5" -> 5 [] u = "6" -> 6 [] u = "7" -> 7 [] u = "8" -> 8 [] u = "9" -> 9

RECURSIVE DigitsValue(_)
DigitsValue(ds) ==
    IF ds = <<>> THEN 0
    ELSE 10 * DigitsValue(SubSeq(ds, 1, Len(ds) - 1)) + DigitValue(ds[Len(ds)])

RECURSIVE IntPow(_, _)
IntPow(b, e) == IF e = 0 THEN 1 ELSE b * IntPow(b, e - 1)

Abs(n) == IF n < 0 THEN -n ELSE n

RECURSIVE Gcd(_, _)
Gcd(a, b) == IF b = 0 THEN a ELSE Gcd(b, a % b)

PyVal(k, n, d) ==
    LET g == IF n = 0 THEN Abs(d) ELSE Gcd(Abs(n), Abs(d))
        sg == IF d < 0 THEN -1 ELSE 1
    IN  [k |-> k, n |-> sg * (n \div g), d |-> sg * (d \div g)]

PyTuple == [k |-> "tuple", n |-> 0, d |-> 1]

PyEllipsis == [k |-> "ellipsis", n |-> 0, d |-> 1]

PyIrr == [k |-> "irr", n |-> 1, d |-> 1]

PyComplex == [k |-> "complex", n |-> 1, d |-> 1]

IsNumber(v) == v.k \in {"int", "float", "irr", "complex"}

IsExact(v) == v.k \in {"int", "float"}

IsZero(v) == IsExact(v) /\ v.n = 0

\* the type of an arithmetic result: complex, else irr, else float, else int
JoinKind(a, b) ==
    IF "complex" \in {a.k, b.k} THEN "complex"
    ELSE IF "irr" \in {a.k, b.k} THEN "irr"
    ELSE IF "float" \in {a.k, b.k} THEN "float"
    ELSE "int"

EvalFail == [ok |-> FALSE, pos |-> 0, val |-> PyTuple]

EvalOk(p, v) == [ok |-> TRUE, pos |-> p, val |-> v]

\* a value, or ok = FALSE for TypeError / ZeroDivisionError
Raised == [ok |-> FALSE, val |-> PyTuple]

Value(v) == [ok |-> TRUE, val |-> v]

Inexact(a, b) == Value([k |-> JoinKind(a, b), n |-> 1, d |-> 1])

PyAdd(a, b) ==
    IF a.k = "tuple" /\ b.k = "tuple" THEN Value(PyTuple)
    ELSE IF ~(IsNumber(a) /\ IsNumber(b)) THEN Raised
    ELSE IF ~(IsExact(a) /\ IsExact(b)) THEN Inexact(a, b)
    ELSE Value(PyVal(JoinKind(a, b), a.n * b.d + b.n * a.d, a.d * b.d))

PyNeg(a) == IF IsExact(a) THEN Value(PyVal(a.k, -a.n, a.d))
            ELSE IF IsNumber(a) THEN Value(a) ELSE Raised

PySub(a, b) ==
    IF ~(IsNumber(a) /\ IsNumber(b)) THEN Raised
    ELSE IF ~(IsExact(a) /\ IsExact(b)) THEN Inexact(a, b)
    ELSE Value(PyVal(JoinKind(a, b), a.n * b.d - b.n * a.d, a.d * b.d))

PyMul(a, b) ==
    IF (a.k = "tuple" /\ b.k = "int") \/ (a.k = "int" /\ b.k = "tuple") THEN Value(PyTuple)
    ELSE IF ~(IsNumber(a) /\ IsNumber(b)) THEN Raised
    ELSE IF ~(IsExact(a) /\ IsExact(b))
         THEN IF IsZero(a) \/ IsZero(b) THEN Value(PyVal(JoinKind(a, b), 0, 1))
              ELSE Inexact(a, b)
    ELSE Value(PyVal(JoinKind(a, b), a.n * b.n, a.d * b.d))

\* true division: the result is a float, a zero divisor raises ZeroDivisionError
PyDiv(a, b) ==
    IF ~(IsNumber(a) /\ IsNumber(b)) THEN Raised
    ELSE IF IsZero(b) THEN Raised
    ELSE IF ~(IsExact(a) /\ IsExact(b)) THEN Inexact(a, b)
    ELSE Value(PyVal("float", a.n * b.d, a.d * b.n))

\* floor division: complex operands raise TypeError
PyFloorDiv(a, b) ==
    IF ~(IsNumber(a) /\ IsNumber(b)) \/ "complex" \in {a.k, b.k} THEN Raised
    ELSE IF IsZero(b) THEN Raised
    ELSE IF ~(IsExact(a) /\ IsExact(b)) THEN Inexact(a, b)
    ELSE LET q == PyVal("int", a.n * b.d, a.d * b.n)
         IN  Value(PyVal(JoinKind(a, b), q.n \div q.d, 1))

PyPow(a, b) ==
    IF ~(IsNumber(a) /\ IsNumber(b)) THEN Raised
    ELSE IF ~(IsExact(a) /\ IsExact(b))
         THEN IF IsZero(b) THEN Value(PyVal(JoinKind(a, b), 1, 1))
              ELSE IF IsZero(a) THEN Value(PyVal(JoinKind(a, b), 0, 1))
              ELSE Inexact(a, b)
    ELSE IF b.d = 1
         THEN IF b.n >= 0
              THEN Value(PyVal(JoinKind(a, b), IntPow(a.n, b.n), IntPow(a.d, b.n)))
              ELSE IF a.n = 0 THEN Raised
              ELSE Value(PyVal("float", IntPow(a.d, -b.n), IntPow(a.n, -b.n)))
    ELSE IF a.n = 0 THEN (IF b.n > 0 THEN Value(PyVal("float", 0, 1)) ELSE Raised)
    ELSE IF a.n < 0 THEN Value(PyComplex)
    ELSE IF a.n = a.d THEN Value(PyVal("float", 1, 1))
    ELSE Value(PyIrr)

\* the tokens of the expression
Tok(k, v, val) == [k |-> k, v |-> v, val |-> val]

OpTok(v) == Tok("op", v, PyTuple)

IsOp(toks, i, v) == i <= Len(toks) /\ toks[i].k = "op" /\ toks[i].v = v

\* the number literal that starts at index i: [tok, pos]
LexNumber(s, i) ==
    LET e1 == SkipChars(s, i, Digits)
        hasdot == e1 <= Len(s) /\ s[e1] = "."
        e2 == IF hasdot THEN SkipChars(s, e1 + 1, Digits) ELSE e1
        ip == Slice(s, i, e1)
        fr == IF hasdot THEN Slice(s, e1 + 1, e2) ELSE <<>>
    IN  IF hasdot
        THEN [tok |-> Tok("num", "", PyVal("float", DigitsValue(ip \o fr), IntPow(10, Len(fr)))),
              pos |-> e2]
        ELSE IF Len(ip) > 1 /\ ip[1] = "0" /\ \E j \in 1..Len(ip) : ip[j] # "0"
             THEN [tok |-> Tok("bad", "", PyTuple), pos |-> e2]
        ELSE [tok |-> Tok("num", "", PyVal("int", DigitsValue(ip), 1)), pos |-> e2]

RECURSIVE Lex(_, _, _, _)
\* the tokens of s from index i on; depth is the parenthesis depth, in which a
\* line break is a blank; outside it a line break after a token ends the line
Lex(s, i, depth, acc) ==
    IF i > Len(s) THEN acc
    ELSE LET c == s[i]
             nxt(u) == i + 1 <= Len(s) /\ s[i + 1] = u
         IN  IF c = " " THEN Lex(s, i + 1, depth, acc)
             ELSE IF c = Newline
                  THEN IF depth > 0 \/ acc = <<>> \/ acc[Len(acc)].k = "nl"
                       THEN Lex(s, i + 1, depth, acc)
                       ELSE Lex(s, i + 1, depth, Append(acc, Tok("nl", "", PyTuple)))
             ELSE IF c \in Digits \/ (c = "." /\ i + 1 <= Len(s) /\ s[i + 1] \in Digits)
                  THEN LET n == LexNumber(s, i)
                       IN  Lex(s, n.pos, depth, Append(acc, n.tok))
             ELSE IF c = "." /\ nxt(".") /\ i + 2 <= Len(s) /\ s[i + 2] = "."
                  THEN Lex(s, i + 3, depth, Append(acc, Tok("num", "", PyEllipsis)))
             ELSE IF c = "*" /\ nxt("*") THEN Lex(s, i + 2, depth, Append(acc, OpTok("**")))
             ELSE IF c = "/" /\ nxt("/") THEN Lex(s, i + 2, depth, Append(acc, OpTok("//")))
             ELSE IF c = "(" THEN Lex(s, i + 1, depth + 1, Append(acc, OpTok(c)))
             ELSE IF c = ")"
                  THEN Lex(s, i + 1, IF depth > 0 THEN depth - 1 ELSE 0, Append(acc, OpTok(c)))
             ELSE IF c \in {"+", "-", "*", "/", "."} THEN Lex(s, i + 1, depth, Append(acc, OpTok(c)))
             ELSE Lex(s, i + 1, depth, Append(acc, Tok("bad", "", PyTuple)))

\* unary + and -
PyUnary(op, a) ==
    IF op = "-" THEN PyNeg(a) ELSE IF IsNumber(a) THEN Value(a) ELSE Raised

\* the binary operators of term and sum
PyBinary(op, a, b) ==
    CASE op = "*" -> PyMul(a, b)
      [] op = "/" -> PyDiv(a, b)
      [] op = "//" -> PyFloorDiv(a, b)
      [] op = "+" -> PyAdd(a, b)
      [] OTHER -> PySub(a, b)

RECURSIVE PyParse(_, _, _, _)
\* the recursive-descent parser and evaluator of Python's expression grammar; rule
\* names the grammar rule read at token i, acc the left operand of a repetition:
\*   sum:    term (('+' | '-') term)*
\*   term:   factor (('*' | '/' | '//') factor)*
\*   factor: ('+' | '-') factor | power
\*   power:  atom ['**' factor]
\*   atom:   a number, ..., () or a parenthesized sum
\* An atom followed by "(" is a call of a number, a tuple or Ellipsis: a SyntaxError
\* or a TypeError.  ok is FALSE for a SyntaxError and for an exception of the evaluation.
PyParse(rule, toks, i, acc) ==
    CASE rule = "atom" ->
            IF i > Len(toks) THEN EvalFail
            ELSE IF toks[i].k = "num" THEN EvalOk(i + 1, toks[i].val)
            ELSE IF IsOp(toks, i, "(")
                 THEN IF IsOp(toks, i + 1, ")") THEN EvalOk(i + 2, PyTuple)
                      ELSE LET r == PyParse("sum", toks, i + 1, acc)
                           IN  IF r.ok /\ IsOp(toks, r.pos, ")") THEN EvalOk(r.pos + 1, r.val)
                               ELSE EvalFail
            ELSE EvalFail
      [] rule = "power" ->
            LET a == PyParse("atom", toks, i, acc)
            IN  IF ~a.ok \/ IsOp(toks, a.pos, "(") THEN EvalFail
                ELSE IF IsOp(toks, a.pos, "**")
                     THEN LET f == PyParse("factor", toks, a.pos + 1, acc)
                          IN  IF ~f.ok THEN EvalFail
                              ELSE LET v == PyPow(a.val, f.val)
                                   IN  IF v.ok THEN EvalOk(f.pos, v.val) ELSE EvalFail
                ELSE a
      [] rule = "factor" ->
            IF IsOp(toks, i, "+") \/ IsOp(toks, i, "-")
            THEN LET f == PyParse("factor", toks, i + 1, acc)
                 IN  IF ~f.ok THEN EvalFail
                     ELSE LET v == PyUnary(toks[i].v, f.val)
                          IN  IF v.ok THEN EvalOk(f.pos, v.val) ELSE EvalFail
            ELSE PyParse("power", toks, i, acc)
      [] rule = "term" ->
            LET f == PyParse("factor", toks, i, acc)
            IN  IF f.ok THEN PyParse("term_rest", toks, f.pos, f.val) ELSE EvalFail
      [] rule = "term_rest" ->
            IF IsOp(toks, i, "*") \/ IsOp(toks, i, "/") \/ IsOp(toks, i, "//")
            THEN LET f == PyParse("factor", toks, i + 1, acc)
                 IN  IF ~f.ok THEN EvalFail
                     ELSE LET v == PyBinary(toks[i].v, acc, f.val)
                          IN  IF v.ok THEN PyParse("term_rest", toks, f.pos, v.val)
                              ELSE EvalFail
            ELSE EvalOk(i, acc)
      [] rule = "sum" ->
            LET f == PyParse("term", toks, i, acc)
            IN  IF f.ok THEN PyParse("sum_rest", toks, f.pos, f.val) ELSE EvalFail
      [] OTHER ->
            IF IsOp(toks, i, "+") \/ IsOp(toks, i, "-")
            THEN LET f == PyParse("term", toks, i + 1, acc)
                 IN  IF ~f.ok THEN EvalFail
                     ELSE LET v == PyBinary(toks[i].v, acc, f.val)
                          IN  IF v.ok THEN PyParse("sum_rest", toks, f.pos, v.val)
                              ELSE EvalFail
            ELSE EvalOk(i, acc)

\* eval(source): one expression, then only line ends
PyEval(source) ==
    LET toks == Lex(source, 1, 0, <<>>)
        r == PyParse("sum", toks, 1, PyTuple)
    IN  IF r.ok /\ \A j \in r.pos..Len(toks) : toks[j].k = "nl" THEN r ELSE EvalFail

(***************************************************************************)
(* InventoryTools.calculate                                                *)
(***************************************************************************)
MathChars == Digits \cup {"+", "-", "*", "/", "(", ")", "."} \cup Whitespace

\* re.sub(r'[^0-9+\-*/().\s]', '', expression)
Sanitize(expression) == SelectSeq(expression, LAMBDA u : u \in MathChars)

RECURSIVE NatDigits(_)
\* str(n) of a natural number
NatDigits(n) ==
    LET u == CHOOSE c \in Digits : DigitValue(c) = n % 10
    IN  IF n < 10 THEN <<u>> ELSE Append(NatDigits(n \div 10), u)

\* str(result): an int in decimal, any other value as one unit naming its type
PyRepr(v) ==
    CASE v.k = "int" -> (IF v.n < 0 THEN <<"-">> ELSE <<>>) \o NatDigits(Abs(v.n))
      [] v.k = "tuple" -> <<"(", ")">>
      [] v.k = "ellipsis" -> <<"Ellipsis">>
      [] OTHER -> <<v.k>>

CalcError == [kind |-> "error", text |-> <<"Error calculating: ", "exception">>, val |-> PyTuple]

\* expression is a Python value; re.sub raises TypeError on one that is no string,
\* and the except clause turns every exception into the error string
calculate(expression) ==
    IF expression.t # "str" THEN CalcError
    ELSE LET r == PyEval(Sanitize(expression.s))
         IN  IF r.ok THEN [kind |-> "result", text |-> <<"Result: ">> \o PyRepr(r.val), val |-> r.val]
             ELSE CalcError

(***************************************************************************)
(* VectorStore.search, VectorStore.get_all_inventory                       *)
(* The collection is the sequence of stored document texts.  env is what   *)
(* the services do during one dispatch: emb_ok (the embedding request      *)
(* answers with an embedding), emb_hangs (it never answers at all), fault  *)
(* (the collection raises) and rank (the order in which the collection     *)
(* ranks the stored documents for the query).                              *)
(***************************************************************************)
Take(s, n) == SubSeq(s, 1, IF Len(s) < n THEN Len(s) ELSE n)

\* the search with n_results left out of the query: every document comes back
search_all(collection, env, n_results) ==
    IF ~env.emb_ok THEN <<>>
    ELSE [i \in 1..Len(env.rank) |-> collection[env.rank[i]]]

\* get_embedding returns None on any exception; search then returns []
search(collection, env, n_results) ==
    IF ~env.emb_ok THEN <<>>
    ELSE Take([i \in 1..Len(env.rank) |-> collection[env.rank[i]]], n_results)

get_all_inventory(collection) == collection

(***************************************************************************)
(* InventoryTools                                                          *)
(***************************************************************************)
SearchResults == 2

NoInventoryFound == <<"No inventory information found for that query.">>

RECURSIVE JoinStr(_, _)
\* sep.join(parts)
JoinStr(parts, sep) ==
    IF parts = <<>> THEN <<>>
    ELSE IF Len(parts) = 1 THEN parts[1]
    ELSE parts[1] \o sep \o JoinStr(Tail(parts), sep)

\* a handler's return: raised is TRUE where an exception leaves the handler
Returned(t) == [raised |-> FALSE, text |-> t, hangs |-> FALSE]

HandlerRaised == [raised |-> TRUE, text |-> <<"exception">>, hangs |-> FALSE]

\* the handler never comes back: get_embedding waits in a requests.post that has no
\* timeout for an answer that does not come
HandlerHangs == [raised |-> FALSE, text |-> <<>>, hangs |-> TRUE]

search_inventory(collection, env) ==
    IF env.emb_hangs THEN HandlerHangs
    ELSE IF env.emb_ok /\ env.fault THEN HandlerRaised
    ELSE LET results == search(collection, env, SearchResults)
         IN  IF results # <<>> THEN Returned(JoinStr(results, <<Newline, Newline>>))
             ELSE Returned(NoInventoryFound)

\* the canned answers, in the order of the dict
SimulatedKeys == << <<"olive", " ", "oil">>, <<"flour">>, <<"suppliers">> >>

web_search(query) ==
    IF query.t # "str" THEN HandlerRaised
    ELSE LET query_lower == LowerStr(query.s)
             hits == {i \in 1..Len(SimulatedKeys) : Contains(query_lower, SimulatedKeys[i])}
         IN  IF hits # {}
             THEN Returned(<<"Web Search Results:", Newline, "canned: ">> \o SimulatedKeys[Min(hits)])
             ELSE Returned(<<"Web search for '">> \o query.s
                           \o <<"' would be performed here. In production, this would use a real search API.">>)

RuleWidth == 50

Repeat(u, n) == [i \in 1..n |-> u]

NoInventoryData == <<"No inventory data available.">>

ReportHeader ==
    Repeat("=", RuleWidth) \o <<Newline, "MONTHLY INVENTORY REPORT", Newline,
    "Date: January 31, 2026", Newline>> \o Repeat("=", RuleWidth) \o <<Newline, Newline>>

DocTrailer == <<Newline, Newline>> \o Repeat("-", RuleWidth) \o <<Newline, Newline>>

RECURSIVE ReportBodySkipEmpty(_)
\* the loop with a guard "if doc:" that leaves out empty documents
ReportBodySkipEmpty(all_inventory) ==
    IF all_inventory = <<>> THEN <<>>
    ELSE (IF all_inventory[1] = <<>> THEN <<>> ELSE all_inventory[1] \o DocTrailer)
         \o ReportBodySkipEmpty(Tail(all_inventory))

RECURSIVE ReportBody(_)
\* the for loop: report += doc + "\n\n" + "-" * 50 + "\n\n"
ReportBody(all_inventory) ==
    IF all_inventory = <<>> THEN <<>>
    ELSE all_inventory[1] \o DocTrailer \o ReportBody(Tail(all_inventory))

generate_monthly_report(collection) ==
    LET all_inventory == get_all_inventory(collection)
    IN  IF all_inventory = <<>> THEN NoInventoryData
        ELSE ReportHeader \o ReportBody(all_inventory)

(***************************************************************************)
(* KitchenInventoryAgent.execute_tool                                      *)
(***************************************************************************)
\* the keys of tool_map, in order
ToolNames == << <<"search_inventory">>, <<"calculate">>, <<"web_search">>,
                <<"generate_monthly_report">> >>

ToolMapKeys == {ToolNames[i] : i \in 1..Len(ToolNames)}

RECURSIVE FirstPresent(_, _)
\* the chain as parameters.get(k1, parameters.get(k2, ...)): the first key present wins
FirstPresent(parameters, keys) ==
    IF keys = <<>> THEN PyStr(<<>>)
    ELSE IF keys[1] \in DOMAIN parameters THEN parameters[keys[1]]
    ELSE FirstPresent(parameters, Tail(keys))

RECURSIVE FirstTruthy(_, _)
\* parameters.get(k1) or parameters.get(k2) or ... or ""
FirstTruthy(parameters, keys) ==
    IF keys = <<>> THEN PyStr(<<>>)
    ELSE IF Truthy(DictGet(parameters, keys[1])) THEN DictGet(parameters, keys[1])
    ELSE FirstTruthy(parameters, Tail(keys))

SearchAliases == << <<"query">>, <<"item">>, <<"search_term">>, <<"search">> >>

CalcAliases == << <<"expression">>, <<"calculation">>, <<"query">> >>

WebAliases == << <<"query">>, <<"search_term">>, <<"search">> >>

\* the argument the handler of tool_name is called with
ToolArgument(tool_name, parameters) ==
    CASE tool_name = <<"search_inventory">> -> FirstTruthy(parameters, SearchAliases)
      [] tool_name = <<"calculate">> -> FirstTruthy(parameters, CalcAliases)
      [] tool_name = <<"web_search">> -> FirstTruthy(parameters, WebAliases)
      [] OTHER -> PyNone

\* what the handler of tool_name does
RunHandler(tool_name, parameters, collection, env) ==
    CASE tool_name = <<"generate_monthly_report">> ->
            IF env.fault THEN HandlerRaised ELSE Returned(generate_monthly_report(collection))
      [] tool_name = <<"search_inventory">> -> search_inventory(collection, env)
      [] tool_name = <<"calculate">> -> Returned(calculate(ToolArgument(tool_name, parameters)).text)
      [] OTHER -> web_search(ToolArgument(tool_name, parameters))

UnknownTool(tool_name) ==
    <<"Unknown tool: ">> \o tool_name \o <<". Available tools: ">> \o JoinStr(ToolNames, <<", ">>)

ToolException(tool_name, h) ==
    <<"Error executing tool ">> \o tool_name \o <<": ">> \o h.text

\* execute_tool without its try/except: a handler's exception leaves it
execute_tool_uncaught(tool_name, parameters, collection, env) ==
    IF tool_name \notin ToolMapKeys
    THEN [threw |-> FALSE, text |-> UnknownTool(tool_name), ran |-> <<>>, hangs |-> FALSE]
    ELSE LET h == RunHandler(tool_name, parameters, collection, env)
         IN  [threw |-> h.raised, text |-> h.text, ran |-> <<tool_name>>, hangs |-> h.hangs]

\* the string execute_tool returns and the handlers it ran; threw is TRUE where an
\* exception leaves execute_tool, hangs where the handler never comes back
execute_tool(tool_name, parameters, collection, env) ==
    IF tool_name \notin ToolMapKeys
    THEN [threw |-> FALSE, text |-> UnknownTool(tool_name), ran |-> <<>>, hangs |-> FALSE]
    ELSE LET h == RunHandler(tool_name, parameters, collection, env)
         IN  [threw |-> FALSE,
              text |-> IF h.raised THEN ToolException(tool_name, h) ELSE h.text,
              ran |-> <<tool_name>>,
              hangs |-> h.hangs]

(***************************************************************************)
(* KitchenInventoryAgent.call_llm                                          *)
(* A reply is what requests.post and the decoding of its body amount to:   *)
(*   text           a JSON object whose "response" is the string reply.text*)
(*   timeout        requests.exceptions.Timeout                            *)
(*   request_error  another RequestException: no connection, an HTTP error *)
(*                  status, a body that is no JSON                         *)
(*   not_object     a JSON body that is no object: result.get raises       *)
(*   no_field       a JSON object without "response"                       *)
(*   null_field     a JSON object whose "response" is null                 *)
(***************************************************************************)
ReplyKinds == {"text", "timeout", "request_error", "not_object", "no_field", "null_field"}

Reply(kind, t) == [kind |-> kind, text |-> t]

TimeoutMessage == <<"Error: Request timed out. The model may be overloaded.">>

RequestErrorMessage == <<"Error calling LLM: ", "exception", Newline, "Make sure Ollama is running.">>

UnexpectedMessage == <<"Unexpected error: ", "exception">>

\* the Python value call_llm returns
call_llm(reply) ==
    CASE reply.kind = "text" -> PyStr(reply.text)
      [] reply.kind = "timeout" -> PyStr(TimeoutMessage)
      [] reply.kind = "request_error" -> PyStr(RequestErrorMessage)
      [] reply.kind = "not_object" -> PyStr(UnexpectedMessage)
      [] reply.kind = "no_field" -> PyStr(<<>>)
      [] OTHER -> PyNone

(***************************************************************************)
(* KitchenInventoryAgent.process_query                                     *)
(***************************************************************************)
AntiHallucination == <<"CRITICAL INSTRUCTIONS">>

\* final_prompt of step 3
FinalPrompt(query, result) ==
    <<"User Query: ">> \o query \o <<Newline, Newline>> \o AntiHallucination \o <<Newline, Newline>>
    \o (IF result # <<>>
        THEN <<"Tool Results:", Newline>> \o result \o <<Newline, Newline,
               "Using the tool results above, answer the user's query accurately and concisely.",
               Newline>>
        ELSE <<"Answer the user's query based on your knowledge of the inventory system.",
               Newline>>)

\* the one element of a singleton set
Only(S) == CHOOSE x \in S : TRUE

\* the tool step as a loop that runs the handler again on its own result
Step2ExecuteTwice(tool_call, collection, env) ==
    IF tool_call.found
    THEN Only({[raised |-> r.threw, parsed |-> 1, tool_result |-> r.text, ran |-> r.ran \o r.ran,
                blocked |-> r.hangs] :
                 r \in {execute_tool(tool_call.tool, tool_call.parameters, collection, env)}})
    ELSE [raised |-> FALSE, parsed |-> 1, tool_result |-> <<>>, ran |-> <<>>, blocked |-> FALSE]

\* if tool_call: tool_result = self.execute_tool(tool_call['tool'], tool_call['parameters'])
Step2Execute(tool_call, collection, env) ==
    IF tool_call.found
    THEN Only({[raised |-> r.threw, parsed |-> 1, tool_result |-> r.text, ran |-> r.ran,
                blocked |-> r.hangs] :
                 r \in {execute_tool(tool_call.tool, tool_call.parameters, collection, env)}})
    ELSE [raised |-> FALSE, parsed |-> 1, tool_result |-> <<>>, ran |-> <<>>, blocked |-> FALSE]

\* step 2: tool_call = parse_tool_call(tool_decision) and, if tool_call, execute_tool.
\* raised is TRUE where re.search raises TypeError on a tool_decision that is no string,
\* blocked where execute_tool never comes back.
Step2(decision, collection, env) ==
    IF decision.t # "str"
    THEN [raised |-> TRUE, parsed |-> 0, tool_result |-> <<>>, ran |-> <<>>, blocked |-> FALSE]
    ELSE Only({Step2Execute(tool_call, collection, env) :
                 tool_call \in {parse_tool_call(decision.s)}})

\* the entry of step 5
Turn(query, response) == [user |-> query, agent |-> response]

(***************************************************************************)
(* The textual convention of the selection response                        *)
(***************************************************************************)
RECURSIVE JsonEscape(_)
\* the body of a JSON string literal for s
JsonEscape(s) ==
    IF s = <<>> THEN <<>>
    ELSE (CASE s[1] = Quote -> <<Backslash, Quote>>
            [] s[1] = Backslash -> <<Backslash, Backslash>>
            [] s[1] = Newline -> <<Backslash, "n">>
            [] OTHER -> <<s[1]>>) \o JsonEscape(Tail(s))

JsonLiteral(s) == <<Quote>> \o JsonEscape(s) \o <<Quote>>

RECURSIVE JsonPairs(_)
JsonPairs(pairs) ==
    IF pairs = <<>> THEN <<>>
    ELSE JsonLiteral(pairs[1].k) \o <<":", " ">> \o JsonLiteral(pairs[1].v)
         \o (IF Len(pairs) > 1 THEN <<",", " ">> ELSE <<>>) \o JsonPairs(Tail(pairs))

\* the JSON object of the key/value pairs, keys in the order given
JsonObject(pairs) == <<"{">> \o JsonPairs(pairs) \o <<"}">>

Pair(k, v) == [k |-> k, v |-> v]

\* TOOL: tool, then on the next line PARAMETERS: block
Directive(marker, tool, block) ==
    <<marker, " ">> \o tool \o <<Newline, "PARAMETERS:", " ">> \o block

\* a response with two directives
TwoDirectives ==
    Directive("TOOL:", <<"calculate">>, JsonObject(<<Pair(<<"expression">>, <<"2", "*", "3">>)>>))
    \o <<Newline>> \o Directive("TOOL:", <<"generate_monthly_report">>, <<"{", "}">>)

\* the selection responses the model draws from
SelectTexts ==
    { <<"a", " ", "flour">>,
      Directive("TOOL:", <<"calculate">>, JsonObject(<<Pair(<<"expression">>, <<"2", "+", "2">>)>>)),
      Directive("TOOL:", <<"calculate">>, <<"{", "1", "/", "0", "}">>),
      Directive("TOOL:", <<"search_inventory">>, JsonObject(<<Pair(<<"item">>, <<"olive", " ", "oil">>)>>)),
      Directive("Tool:", <<"WEB_SEARCH">>, JsonObject(<<Pair(<<"search">>, <<"Flour">>)>>)),
      Directive("TOOL:", <<"web_search">>, <<"{", Quote, "query", Quote, ":", " ", "5", "}">>),
      <<"TOOL:", " ", "generate_monthly_report">>,
      Directive("TOOL:", <<"bogus">>, JsonObject(<<Pair(<<"query">>, <<"a">>)>>)),
      TwoDirectives }

\* the synthesis responses the model draws from
AnswerTexts == { <<"a", " ", "flour">> }

SelectReplies ==
    {Reply("text", t) : t \in SelectTexts} \cup {Reply(k, <<>>) : k \in ReplyKinds \ {"text"}}

AnswerReplies ==
    {Reply("text", t) : t \in AnswerTexts} \cup {Reply(k, <<>>) : k \in ReplyKinds \ {"text"}}

Queries == { <<"olive", " ", "oil">>, <<"2", "+", "2">> }

\* the knowledge bases the store was loaded from
Collections == { <<>>, << <<>> >>, << <<"olive", " ", "oil">>, <<>>, <<"flour">> >> }

Rankings(n) == {f \in [1..n -> 1..n] : \A i, j \in 1..n : f[i] = f[j] => i = j}

\* what the services do during one dispatch; in the last one the embedding service
\* accepts the request and never answers
Envs(collection) ==
    [emb_ok : BOOLEAN, fault : BOOLEAN, rank : Rankings(Len(collection)), emb_hangs : {FALSE}]
    \cup [emb_ok : {FALSE}, fault : {FALSE}, rank : {[i \in 1..Len(collection) |-> i]},
          emb_hangs : {TRUE}]

\* turns one run of the model follows
MaxTurns == 2

(***************************************************************************)
(* The agent: one process_query call at a time, step by step               *)
(***************************************************************************)
HarnessIdle ==
    /\ intent = <<>>
    /\ text = <<>>
    /\ res = <<>>
    /\ henv = <<>>
    /\ out = <<>>
    /\ stage = "off"

\* KitchenInventoryAgent.__init__: no call is running, the history is empty
AgentIdle ==
    /\ pc = "idle"
    /\ user_query = <<>>
    /\ tool_decision = PyNone
    /\ tool_result = <<>>
    /\ final_prompt = <<>>
    /\ final_response = PyNone
    /\ conversation_history = <<>>
    /\ outcome = "none"
    /\ retval = PyNone
    /\ llm_calls = <<>>
    /\ tool_runs = <<>>
    /\ parses = 0
    /\ completed = <<>>

Init ==
    /\ AgentIdle
    /\ docs \in Collections
    /\ HarnessIdle

\* the call ends: its locals are gone, the caller sees how it ended and what it returned
EndCall(how, value) ==
    /\ pc' = "idle"
    /\ outcome' = how
    /\ retval' = value
    /\ user_query' = <<>>
    /\ tool_decision' = PyNone
    /\ tool_result' = <<>>
    /\ final_prompt' = <<>>
    /\ final_response' = PyNone
    /\ llm_calls' = <<>>
    /\ tool_runs' = <<>>
    /\ parses' = 0

\* chat(user_input) / process_query(user_query) is called
Call(q) ==
    /\ pc = "idle"
    /\ Len(conversation_history) < MaxTurns
    /\ pc' = "select"
    /\ user_query' = q
    /\ outcome' = "none"
    /\ retval' = PyNone
    /\ UNCHANGED <<tool_decision, tool_result, final_prompt, final_response, llm_calls,
                   tool_runs, parses, conversation_history, completed, docs, harnessVars>>

\* step 1: tool_decision = self.call_llm(tool_selection_prompt, system_prompt)
Select(reply) ==
    /\ pc = "select"
    /\ tool_decision' = call_llm(reply)
    /\ llm_calls' = Append(llm_calls, reply)
    /\ pc' = "dispatch"
    /\ UNCHANGED <<user_query, tool_result, final_prompt, final_response, conversation_history,
                   outcome, retval, tool_runs, parses, completed, docs, harnessVars>>

\* steps 2 and 3: parse, execute the tool if one is named, build final_prompt;
\* an exception ends the call; a handler that never comes back leaves it waiting
Dispatch(env) ==
    /\ pc = "dispatch"
    /\ \E r \in {Step2(tool_decision, docs, env)} :
           IF r.raised
           THEN EndCall("raised", PyNone)
           ELSE IF r.blocked
           THEN /\ pc' = "blocked"
                /\ parses' = parses + r.parsed
                /\ tool_runs' = tool_runs \o r.ran
                /\ UNCHANGED <<user_query, tool_decision, tool_result, final_prompt,
                               final_response, outcome, retval, llm_calls>>
           ELSE /\ pc' = "synth"
                /\ parses' = parses + r.parsed
                /\ tool_runs' = tool_runs \o r.ran
                /\ tool_result' = r.tool_result
                /\ final_prompt' = FinalPrompt(user_query, r.tool_result)
                /\ UNCHANGED <<user_query, tool_decision, final_response, outcome, retval,
                               llm_calls>>
    /\ UNCHANGED <<conversation_history, completed, docs, harnessVars>>

\* step 4: final_response = self.call_llm(final_prompt, system_prompt)
Synth(reply) ==
    /\ pc = "synth"
    /\ final_response' = call_llm(reply)
    /\ llm_calls' = Append(llm_calls, reply)
    /\ pc' = "append"
    /\ UNCHANGED <<user_query, tool_decision, tool_result, final_prompt, conversation_history,
                   outcome, retval, tool_runs, parses, completed, docs, harnessVars>>

\* step 5 as an assignment that replaces the list
AppendHistoryOverwrite ==
    /\ pc = "append"
    /\ conversation_history' = <<Turn(user_query, final_response)>>
    /\ pc' = "ret"
    /\ UNCHANGED <<user_query, tool_decision, tool_result, final_prompt, final_response,
                   outcome, retval, llm_calls, tool_runs, parses, completed, docs, harnessVars>>

\* step 5: self.conversation_history.append({"user": ..., "agent": ...})
AppendHistory ==
    /\ pc = "append"
    /\ conversation_history' = Append(conversation_history, Turn(user_query, final_response))
    /\ pc' = "ret"
    /\ UNCHANGED <<user_query, tool_decision, tool_result, final_prompt, final_response,
                   outcome, retval, llm_calls, tool_runs, parses, completed, docs, harnessVars>>

\* return final_response
Return ==
    /\ pc = "ret"
    /\ EndCall("returned", final_response)
    /\ completed' = Append(completed, Turn(user_query, final_response))
    /\ UNCHANGED <<conversation_history, docs, harnessVars>>

\* KeyboardInterrupt is raised in the running call, between any two of its steps or
\* inside a blocking one, and leaves it
Interrupt ==
    /\ pc # "idle"
    /\ EndCall("interrupted", PyNone)
    /\ UNCHANGED <<conversation_history, completed, docs, harnessVars>>

Next ==
    \/ \E q \in Queries : Call(q)
    \/ \E reply \in SelectReplies : Select(reply)
    \/ \E env \in Envs(docs) : Dispatch(env)
    \/ \E reply \in AnswerReplies : Synth(reply)
    \/ AppendHistory
    \/ Return
    \/ Interrupt

Spec == Init /\ [][Next]_vars

\* the agent while the interpreter keeps running the call: no step that can be taken
\* is put off for ever. A gateway request ends after its 60 seconds at the latest, by
\* an answer or by Timeout. The dispatch step is enabled exactly where pc is
\* "dispatch" and leaves that position, so its weak fairness is []<>(pc # "dispatch").
SpecFair ==
    /\ Spec
    /\ WF_vars(\E reply \in SelectReplies : Select(reply))
    /\ []<>(pc # "dispatch")
    /\ WF_vars(\E reply \in AnswerReplies : Synth(reply))
    /\ WF_vars(AppendHistory)
    /\ WF_vars(Return)

(***************************************************************************)
(* parse_tool_call on its own: on the serialization of a ToolIntent and on *)
(* directives with arbitrary brace blocks                                  *)
(***************************************************************************)
\* length of a parameter value of a serialized intent
MaxValueLen == 2

\* length of the text after PARAMETERS:
MaxBlock == 4

SeqsUpTo(S, n) == UNION {[1..k -> S] : k \in 0..n}

ValueChars == {"a", "{", "}", Quote}

IntentValues == SeqsUpTo(ValueChars, MaxValueLen)

IntentTools == { <<"calculate">>, <<"Calculate">>, <<"bogus">> }

\* the parameter lists of an intent: up to two entries with distinct keys
IntentParams ==
    { <<>> }
    \cup { <<Pair(k, v)>> : k \in { <<"query">>, <<"item">> }, v \in IntentValues }
    \cup { <<Pair(<<"query">>, v), Pair(<<"item">>, w)>> : v \in IntentValues, w \in IntentValues }

Intents == [tool : IntentTools, parameters : IntentParams]

\* the mapping a parameter list stands for
RECURSIVE ToDict(_)
ToDict(pairs) ==
    IF pairs = <<>> THEN EmptyDict
    ELSE (pairs[Len(pairs)].k :> PyStr(pairs[Len(pairs)].v)) @@ ToDict(SubSeq(pairs, 1, Len(pairs) - 1))

\* TOOL: t, then PARAMETERS: and the JSON object of p
SerializeIntent(i) == Directive("TOOL:", i.tool, JsonObject(i.parameters))

BlockChars == {"{", "}", " ", "a", Quote, ":"}

\* texts off the convention: the block before the directive, before and after it,
\* no tool name, no directive
OrderTexts ==
    { <<"PARAMETERS:", " ">> \o b \o <<Newline, "TOOL:", " ", "calculate">> :
        b \in { <<"{", "}">>, <<"{", "a", "}">>, JsonObject(<<Pair(<<"query">>, <<"a">>)>>) } }
    \cup { <<"PARAMETERS:", " ">> \o JsonObject(<<Pair(<<"query">>, <<"a">>)>>) \o <<Newline>>
             \o Directive("Tool:", <<"calculate">>, JsonObject(<<Pair(<<"item">>, <<"a">>)>>)) }
    \cup { <<"TOOL:">>, <<"TOOL:", " ", "{", "}">>, <<"TOOL:", Newline, "calculate">>, <<"a">>,
           <<"PARAMETERS:", " ", "{", "}">>, <<"TOOL:", " ", "calculate">>,
           <<"tool:", "calculate", " ", "parameters:", "{", "}">> }

ParseTexts ==
    { Directive("TOOL:", <<"calculate">>, b) : b \in SeqsUpTo(BlockChars, MaxBlock) }
    \cup OrderTexts

NoIntent == [tool |-> <<>>, parameters |-> <<>>]

InitParse ==
    /\ AgentIdle
    /\ docs = <<>>
    /\ res = <<>>
    /\ henv = <<>>
    /\ out = <<>>
    /\ \/ intent \in Intents /\ text = <<>> /\ stage = "intent"
       \/ intent = NoIntent /\ text \in ParseTexts /\ stage = "text"

\* the intent is written in the textual convention
Serialize ==
    /\ stage = "intent"
    /\ text' = SerializeIntent(intent)
    /\ stage' = "text"
    /\ UNCHANGED <<agentVars, docs, intent, res, henv, out>>

\* parse_tool_call(text)
ParseText ==
    /\ stage = "text"
    /\ res' = parse_tool_call(text)
    /\ stage' = "parsed"
    /\ UNCHANGED <<agentVars, docs, intent, text, henv, out>>

NextParse == Serialize \/ ParseText

SpecParse == InitParse /\ [][NextParse]_vars

(***************************************************************************)
(* execute_tool on what parse_tool_call produces                           *)
(***************************************************************************)
ExecTools == { <<"search_inventory">>, <<"calculate">>, <<"web_search">>,
               <<"generate_monthly_report">>, <<"Calculate">>, <<"bogus">>, <<"2">> }

ExecKeys == { <<"query">>, <<"item">>, <<"expression">>, <<"search">> }

\* JSON values: strings and scalars that are no strings
ExecValues ==
    { JsonLiteral(<<"a">>), JsonLiteral(<<"2", "+", "2">>), JsonLiteral(<<>>),
      JsonLiteral(<<"Flour">>), <<"5">>, <<"0">>, <<"null">>, <<"true">>, <<"false">> }

\* objects of two entries, written in and against the order of the aliases
TwoKeyBlocks ==
    { <<"{">> \o JsonLiteral(ks[1]) \o <<":", " ">> \o v \o <<",", " ">>
              \o JsonLiteral(ks[2]) \o <<":", " ">> \o w \o <<"}">> :
        ks \in { << <<"query">>, <<"item">> >>, << <<"item">>, <<"query">> >>,
                 << <<"expression">>, <<"query">> >>, << <<"query">>, <<"expression">> >>,
                 << <<"search">>, <<"query">> >> },
        v \in { JsonLiteral(<<>>), JsonLiteral(<<"2", "+", "2">>), <<"0">> },
        w \in { JsonLiteral(<<"a">>), JsonLiteral(<<"Flour">>) } }

ExecBlocks ==
    { <<"{", "}">>, <<"{", "2", "/", "0", "}">> }
    \cup { <<"{">> \o JsonLiteral(k) \o <<":", " ">> \o v \o <<"}">> : k \in ExecKeys, v \in ExecValues }
    \cup TwoKeyBlocks

ExecTexts ==
    { <<"TOOL:", " ">> \o t : t \in ExecTools }
    \cup { Directive("TOOL:", t, b) : t \in ExecTools, b \in ExecBlocks }

InitExec ==
    /\ AgentIdle
    /\ docs \in Collections
    /\ intent = NoIntent
    /\ text \in ExecTexts
    /\ res = <<>>
    /\ henv = <<>>
    /\ out = <<>>
    /\ stage = "text"

\* execute_tool(tool_call['tool'], tool_call['parameters'])
Execute(env) ==
    /\ stage = "parsed"
    /\ res.found
    /\ out' = execute_tool(res.tool, res.parameters, docs, env)
    /\ henv' = env
    /\ stage' = "executed"
    /\ UNCHANGED <<agentVars, docs, intent, text, res>>

NextExec ==
    \/ ParseText
    \/ \E env \in Envs(docs) : Execute(env)

SpecExec == InitExec /\ [][NextExec]_vars

(***************************************************************************)
(* calculate on its own                                                    *)
(***************************************************************************)
\* length of the expression
MaxExpr == 4

ExprChars == {"0", "2", "+", "-", "*", "/", "(", ")", ".", " ", "x"}

InitCalc ==
    /\ AgentIdle
    /\ docs = <<>>
    /\ intent = NoIntent
    /\ text \in SeqsUpTo(ExprChars, MaxExpr)
    /\ res = <<>>
    /\ henv = <<>>
    /\ out = <<>>
    /\ stage = "text"

\* calculate(expression)
Calculate ==
    /\ stage = "text"
    /\ res' = calculate(PyStr(text))
    /\ stage' = "calculated"
    /\ UNCHANGED <<agentVars, docs, intent, text, henv, out>>

NextCalc == Calculate

SpecCalc == InitCalc /\ [][NextCalc]_vars

(***************************************************************************)
(* generate_monthly_report on its own                                      *)
(***************************************************************************)
\* documents in the store
MaxDocs == 4

DocTexts == { <<"olive", " ", "oil">>, <<>>, <<"flour">> }

InitReport ==
    /\ AgentIdle
    /\ docs \in SeqsUpTo(DocTexts, MaxDocs)
    /\ intent = NoIntent
    /\ text = <<>>
    /\ res = <<>>
    /\ henv = <<>>
    /\ out = <<>>
    /\ stage = "store"

\* generate_monthly_report()
Report ==
    /\ stage = "store"
    /\ res' = generate_monthly_report(docs)
    /\ stage' = "reported"
    /\ UNCHANGED <<agentVars, docs, intent, text, henv, out>>

NextReport == Report

SpecReport == InitReport /\ [][NextReport]_vars

(***************************************************************************)
(* VectorStore.load_knowledge_base on its own. docs is the collection,     *)
(* henv the knowledge-base directory as the call finds it: exists, and     *)
(* files in the order of os.listdir, each with its name, its content and   *)
(* emb_ok (get_embedding answers for it with an embedding).                *)
(***************************************************************************)
\* files in the directory
MaxFiles == 2

FileNames == { <<"a", ".txt">>, <<"b", ".txt">>, <<"notes", ".md">> }

FileTexts == { <<"flour">>, <<>> }

Files == [name : FileNames, content : FileTexts, emb_ok : BOOLEAN]

Dirs ==
    [exists : {FALSE}, files : { <<>> }]
    \cup [exists : {TRUE},
          files : {fs \in SeqsUpTo(Files, MaxFiles) :
                     \A i, j \in 1..Len(fs) : fs[i].name = fs[j].name => i = j}]

\* f.endswith('.txt')
IsTxt(name) == name # <<>> /\ name[Len(name)] = ".txt"

RECURSIVE BulkLoad(_, _)
\* the for loop: read the file, get its embedding, collection.add if there is one
BulkLoad(collection, files) ==
    IF files = <<>> THEN collection
    ELSE BulkLoad(IF files[1].emb_ok THEN Append(collection, files[1].content) ELSE collection,
                  Tail(files))

\* what a call does: the collection after it, the files it read, the embeddings it
\* requested, whether it listed the directory and whether an exception left it
LoadResult(collection, reads, embeds, listed, raised) ==
    [docs |-> collection, reads |-> reads, embeds |-> embeds, listed |-> listed,
     raised |-> raised]

\* the load without the count() > 0 test
load_knowledge_base_always(collection, dir) ==
    IF ~dir.exists THEN LoadResult(collection, 0, 0, TRUE, TRUE)
    ELSE LET files == SelectSeq(dir.files, LAMBDA f : IsTxt(f.name))
         IN  LoadResult(BulkLoad(collection, files), Len(files), Len(files), TRUE, FALSE)

load_knowledge_base(collection, dir) ==
    IF Len(collection) > 0 THEN LoadResult(collection, 0, 0, FALSE, FALSE)
    ELSE IF ~dir.exists THEN LoadResult(collection, 0, 0, TRUE, TRUE)
    ELSE LET files == SelectSeq(dir.files, LAMBDA f : IsTxt(f.name))
         IN  LoadResult(BulkLoad(collection, files), Len(files), Len(files), TRUE, FALSE)

InitLoad ==
    /\ AgentIdle
    /\ docs = <<>>
    /\ intent = NoIntent
    /\ text = <<>>
    /\ res = <<>>
    /\ henv \in Dirs
    /\ out = <<>>
    /\ stage = "store"

\* load_knowledge_base(); res keeps the collection the call found
LoadKnowledgeBase ==
    /\ \E r \in {load_knowledge_base(docs, henv)} :
          /\ docs' = r.docs
          /\ out' = r
    /\ res' = docs
    /\ stage' = "loaded"
    /\ UNCHANGED <<agentVars, intent, text, henv>>

\* between two calls the files are edited, added, removed, or the directory goes
ChangeFiles(dir) ==
    /\ dir # henv
    /\ henv' = dir
    /\ stage' = "store"
    /\ UNCHANGED <<agentVars, docs, intent, text, res, out>>

NextLoad ==
    \/ LoadKnowledgeBase
    \/ \E dir \in Dirs : ChangeFiles(dir)

SpecLoad == InitLoad /\ [][NextLoad]_vars

(***************************************************************************)
(* search_inventory on its own                                             *)
(***************************************************************************)
\* documents in the store that is searched
MaxStore == 3

InitSearch ==
    /\ AgentIdle
    /\ docs \in SeqsUpTo(DocTexts, MaxStore)
    /\ intent = NoIntent
    /\ text = <<>>
    /\ res = <<>>
    /\ henv = <<>>
    /\ out = <<>>
    /\ stage = "store"

\* search_inventory(query)
SearchInventory(env) ==
    /\ stage = "store"
    /\ res' = search_inventory(docs, env)
    /\ henv' = env
    /\ stage' = "searched"
    /\ UNCHANGED <<agentVars, docs, intent, text, out>>

NextSearch == \E env \in Envs(docs) : SearchInventory(env)

SpecSearch == InitSearch /\ [][NextSearch]_vars

(***************************************************************************)
(* Properties                                                              *)
(***************************************************************************)
\* C1: process_query never throws: whatever the two language-model calls and the
\* tool handler do, the call does not end by an exception and what it returns is
\* a string.
C1_NeverThrows ==
    /\ outcome # "raised"
    /\ outcome = "returned" => retval.t = "str"

HasToolToken(s) == \E i \in 1..Len(s) : Lower(s[i]) = "tool:"

\* C2: when the selection response holds no TOOL: token, no handler is run and the
\* final answer about to be returned is a non-empty string.
C2_NoToolNonEmptyAnswer ==
    (pc = "ret" /\ tool_decision.t = "str" /\ ~HasToolToken(tool_decision.s))
        => (tool_runs = <<>> /\ final_response.t = "str" /\ final_response.s # <<>>)

\* C3: in one run of process_query at most one intent is parsed and at most one
\* handler is run, and the gateway is called at most twice; of several directives
\* only the first TOOL: and the first PARAMETERS: are used.
C3_AtMostOneTool ==
    /\ parses <= 1
    /\ Len(tool_runs) <= 1
    /\ Len(llm_calls) <= 2
    /\ pc \in {"synth", "append", "ret"} => parses = 1
    /\ (pc \in {"synth", "append", "ret"} /\ tool_decision = PyStr(TwoDirectives))
          => (tool_runs = << <<"calculate">> >> /\ tool_result = <<"Result: ", "6">>)

C3_Witness ==
    /\ pc = "ret"
    /\ tool_decision = PyStr(TwoDirectives)
    /\ tool_runs = << <<"calculate">> >>

\* C4: the serialization of an intent {tool: t, parameters: p} parses back to t in
\* lower case and to a parameter mapping equal to p.
C4_RoundTrip ==
    (stage = "parsed" /\ intent # NoIntent)
        => /\ res.found
           /\ res.tool = LowerStr(intent.tool)
           /\ res.parameters = ToDict(intent.parameters)

\* the text names a tool and its PARAMETERS: brace block is no JSON object
HasInvalidBlock(s) ==
    /\ ToolMatchAt(s) # 0
    /\ ParamsMatchAt(s) # 0
    /\ ~json_loads(ParamsGroup(s, ParamsMatchAt(s))).ok

Braces == {"{", "}"}

\* the block without its leading and trailing braces and then without the blanks around
Stripped(block) == Strip(Strip(block, Braces), Whitespace)

\* C5 as stated: on a brace block that is no JSON object the parameters are the
\* one entry query, the stripped block, and that value is not empty.
C5_FallbackNonEmpty ==
    (stage = "parsed" /\ HasInvalidBlock(text))
        => LET block == ParamsGroup(text, ParamsMatchAt(text))
           IN  /\ res.found
               /\ res.parameters = (<<"query">> :> PyStr(Stripped(block)))
               /\ Stripped(block) # <<>>

\* C5 as amended: on a brace block that is no JSON object the parameters are the
\* one entry query, the stripped block; the value is empty exactly when nothing
\* but blanks stands between the leading and the trailing braces of the block.
C5_Fallback ==
    (stage = "parsed" /\ HasInvalidBlock(text))
        => LET block == ParamsGroup(text, ParamsMatchAt(text))
               core == Strip(block, Braces)
           IN  /\ res.found
               /\ DOMAIN res.parameters = { <<"query">> }
               /\ res.parameters[<<"query">>] = PyStr(Stripped(block))
               /\ (res.parameters[<<"query">>].s = <<>>)
                     <=> (\A i \in 1..Len(core) : core[i] \in Whitespace)

C5_Witness ==
    /\ stage = "parsed"
    /\ HasInvalidBlock(text)
    /\ ParamsGroup(text, ParamsMatchAt(text)) = <<"{", "{", " ", "}">>
    /\ res.parameters[<<"query">>] = PyStr(<<>>)

\* C6: execute_tool never throws; a name outside the four registered tools gives
\* the error string that lists the four names and runs no handler; an exception
\* inside a handler gives the error string that names the tool.
C6_ExecuteNeverThrows ==
    stage = "executed"
        => /\ ~out.threw
           /\ res.tool \notin ToolMapKeys
                => /\ out.ran = <<>>
                   /\ out.text[1] = "Unknown tool: "
                   /\ \A i \in 1..Len(ToolNames) : Contains(out.text, ToolNames[i])
           /\ (res.tool \in ToolMapKeys /\ RunHandler(res.tool, res.parameters, docs, henv).raised)
                => /\ out.text[1] = "Error executing tool "
                   /\ Contains(out.text, res.tool)

C6_Witness ==
    /\ stage = "executed"
    /\ res.tool = <<"web_search">>
    /\ DictGet(res.parameters, <<"query">>).t = "num"
    /\ out.text[1] = "Error executing tool "

FailureKinds == {"timeout", "request_error", "not_object"}

\* C7: each gateway call is made once, and the answer about to be returned holds
\* the error message of every gateway call that failed.
C7_FailureSurfaces ==
    pc = "ret"
        => /\ Len(llm_calls) = 2
           /\ \A i \in 1..Len(llm_calls) :
                 llm_calls[i].kind \in FailureKinds
                    => /\ final_response.t = "str"
                       /\ Contains(final_response.s, call_llm(llm_calls[i]).s)

\* C8 as stated: between calls the history is the list of the pairs of the
\* completed calls, so that an interrupted turn has appended nothing.
C8_HistoryIsCompletedCalls ==
    pc = "idle" => conversation_history = completed

\* a is b with some entries left out
IsSubsequence(a, b) ==
    \E f \in [1..Len(a) -> 1..Len(b)] :
        /\ \A i, j \in 1..Len(a) : i < j => f[i] < f[j]
        /\ \A i \in 1..Len(a) : b[f[i]] = a[i]

C8_Step ==
    /\ conversation_history' # conversation_history
          => /\ pc = "append"
             /\ conversation_history' = Append(conversation_history,
                                               [user |-> user_query, agent |-> final_response])
    /\ (pc \in {"select", "dispatch", "synth", "append"} /\ pc' = "idle")
          => conversation_history' = conversation_history
    /\ outcome' = "returned" /\ pc = "ret"
          => /\ conversation_history' = conversation_history
             /\ conversation_history[Len(conversation_history)]
                    = [user |-> user_query, agent |-> retval']
    /\ IsSubsequence(completed', conversation_history')

\* C8 as amended: the history changes only by the append step of a turn, which adds
\* the one pair {user query, final answer} at the end; a turn that ends before its
\* append step leaves the history as it was; a call that returns has its pair as
\* the last entry; the pairs of the completed calls are in the history, in order.
C8_AppendOnly == [][C8_Step]_vars

C8_Witness ==
    /\ pc = "idle"
    /\ outcome = "interrupted"
    /\ Len(completed) = 1
    /\ Len(conversation_history) = 2

\* every token is a number, one of + - * / or a parenthesis, and no pair of
\* parentheses is empty
PlainArithmetic(toks) ==
    /\ \A i \in 1..Len(toks) :
          \/ toks[i].k = "num" /\ toks[i].val.k \in {"int", "float"}
          \/ toks[i].k = "op" /\ toks[i].v \in {"+", "-", "*", "/", "(", ")"}
    /\ \A i \in 1..(Len(toks) - 1) : ~(IsOp(toks, i, "(") /\ IsOp(toks, i + 1, ")"))

\* C9: calculate answers "Result: ..." only for an expression of numbers, + - * /
\* and non-empty parentheses, and an error string otherwise; 2+2 gives Result: 4,
\* 2/0 and an input that sanitizes to blanks give an error string.
C9_ResultOnlyForArithmetic ==
    stage = "calculated"
        => /\ res.kind \in {"result", "error"}
           /\ res.kind = "result" => PlainArithmetic(Lex(Sanitize(text), 1, 0, <<>>))
           /\ text = <<"2", "+", "2">> => res.text = <<"Result: ", "4">>
           /\ text = <<"2", "/", "0">> => res.kind = "error"
           /\ (\A i \in 1..Len(text) : text[i] \in {" ", "x"}) => res.kind = "error"

RECURSIVE LenUpTo(_, _)
\* the length of the first n documents, each with its trailer
LenUpTo(ds, n) == IF n = 0 THEN 0 ELSE LenUpTo(ds, n - 1) + Len(ds[n]) + Len(DocTrailer)

\* C10: the report of an empty store is the sentinel; otherwise it is the header,
\* then every document in the order of the store, each followed by the dashed rule,
\* and nothing else.
C10_Report ==
    stage = "reported"
        => IF docs = <<>> THEN res = NoInventoryData
           ELSE /\ Len(res) = Len(ReportHeader) + LenUpTo(docs, Len(docs))
                /\ SubSeq(res, 1, Len(ReportHeader)) = ReportHeader
                /\ \A i \in 1..Len(docs) :
                      LET from == Len(ReportHeader) + LenUpTo(docs, i - 1)
                      IN  SubSeq(res, from + 1, from + Len(docs[i]) + Len(DocTrailer))
                             = docs[i] \o DocTrailer

C10_Witness ==
    /\ stage = "reported"
    /\ Len(docs) = 3
    /\ docs[2] = <<>>
    /\ docs[1] # docs[3]

\* C11: a load on a collection that holds a document reads no file, requests no
\* embedding, does not look at the directory and leaves the collection as it was,
\* whatever the directory holds by then; a load on an empty collection lists the
\* directory and, where it exists, reads every .txt file, requests an embedding for
\* each and stores the files whose embedding arrived, in the order of the listing.
C11_LoadIdempotent ==
    stage = "loaded"
        => /\ res # <<>>
                => /\ docs = res
                   /\ out.reads = 0 /\ out.embeds = 0
                   /\ ~out.listed /\ ~out.raised
           /\ res = <<>>
                => /\ out.listed
                   /\ out.raised <=> ~henv.exists
                   /\ LET txt == {i \in 1..Len(henv.files) : IsTxt(henv.files[i].name)}
                          kept == {i \in txt : henv.files[i].emb_ok}
                      IN  /\ out.reads = Cardinality(txt)
                          /\ out.embeds = Cardinality(txt)
                          /\ Len(docs) = Cardinality(kept)
                          /\ \A i \in kept :
                                docs[Cardinality({j \in kept : j <= i})] = henv.files[i].content

\* a second load finds a document in the collection and the directory gone
C11_Witness ==
    /\ stage = "loaded"
    /\ res # <<>>
    /\ ~henv.exists
    /\ docs = res

\* the aliases of a tool, in the order of their priority
AliasesOf(tool_name) ==
    CASE tool_name = <<"search_inventory">> ->
            << <<"query">>, <<"item">>, <<"search_term">>, <<"search">> >>
      [] tool_name = <<"calculate">> -> << <<"expression">>, <<"calculation">>, <<"query">> >>
      [] tool_name = <<"web_search">> -> << <<"query">>, <<"search_term">>, <<"search">> >>
      [] OTHER -> <<>>

\* a value that counts as given: a string that is not empty, a number that is not 0, true
IsGiven(v) ==
    \/ v.t = "str" /\ v.s # <<>>
    \/ v.t = "num" /\ \E i \in 1..Len(v.s) : v.s[i] \in Digits \ {"0"}
    \/ v.t = "bool" /\ v.s = <<"true">>

\* the value of the first alias that is given, the empty string where none is
FirstGiven(parameters, aliases) ==
    LET given == {i \in 1..Len(aliases) :
                     aliases[i] \in DOMAIN parameters /\ IsGiven(parameters[aliases[i]])}
    IN  IF given = {} THEN PyStr(<<>>) ELSE parameters[aliases[Min(given)]]

\* C12: the handler of search_inventory, calculate and web_search is called with the
\* value of the first alias, in the tool's order of priority, whose value is not
\* empty, and with the empty string where no alias has one; an alias that is present
\* and empty hides no later one; generate_monthly_report is called without
\* arguments and answers the same whatever the parameters.
C12_AliasPriority ==
    (stage = "executed" /\ res.tool \in ToolMapKeys)
        => LET arg == FirstGiven(res.parameters, AliasesOf(res.tool))
           IN  /\ ToolArgument(res.tool, res.parameters)
                     = IF res.tool = <<"generate_monthly_report">> THEN PyNone ELSE arg
               /\ res.tool = <<"calculate">> => out.text = calculate(arg).text
               /\ (res.tool = <<"web_search">> /\ arg.t = "str") => out.text = web_search(arg).text
               /\ res.tool = <<"search_inventory">>
                     => out = execute_tool(res.tool, <<"query">> :> arg, docs, henv)
               /\ res.tool = <<"generate_monthly_report">>
                     => out = execute_tool(res.tool, EmptyDict, docs, henv)

\* calculate is given an empty expression and, under query, a formula
C12_Witness ==
    /\ stage = "executed"
    /\ res.tool = <<"calculate">>
    /\ DOMAIN res.parameters = { <<"expression">>, <<"query">> }
    /\ res.parameters[<<"expression">>] = PyStr(<<>>)
    /\ res.parameters[<<"query">>].s # <<>>
    /\ out.text = calculate(res.parameters[<<"query">>]).text

C14_RespondReturns == (pc # "idle") ~> (pc = "idle")

\* the first TOOL: token that blanks and an identifier follow, 0 where there is none
ToolTokenAt(s) ==
    LET at == {i \in 1..Len(s) :
                  /\ Lower(s[i]) = "tool:"
                  /\ \E j \in (i + 1)..Len(s) :
                        /\ s[j] \in WordChars
                        /\ \A k \in (i + 1)..(j - 1) : s[k] \in Whitespace}
    IN  IF at = {} THEN 0 ELSE Min(at)

\* the parameters a brace block stands for
BlockParams(block) ==
    IF json_loads(block).ok THEN json_loads(block).val ELSE FallbackParams(block)

\* C15: parse_tool_call returns no intent exactly when no TOOL: token with an
\* identifier is in the text; the parameters of an intent are those of the first
\* PARAMETERS: brace block after that token, and the empty mapping where no block
\* follows it.
C15_Grammar ==
    (stage = "parsed" /\ intent = NoIntent)
        => /\ res.found <=> ToolTokenAt(text) # 0
           /\ res.found
                => LET later == SubSeq(text, ToolTokenAt(text) + 1, Len(text))
                   IN  res.parameters =
                          IF ParamsMatchAt(later) = 0 THEN EmptyDict
                          ELSE BlockParams(ParamsGroup(later, ParamsMatchAt(later)))

C16_Step ==
    \* a call that ends, unless the process was interrupted, has made its two gateway
    \* calls and returns what the second one gave
    /\ (pc # "idle" /\ pc' = "idle" /\ outcome' # "interrupted")
          => /\ pc = "ret"
             /\ Len(llm_calls) = 2
             /\ outcome' = "returned"
             /\ retval' = call_llm(llm_calls[2])
    \* the second gateway call comes after the parse and the dispatch, with the
    \* prompt built from what the dispatch returned
    /\ (Len(llm_calls) = 1 /\ Len(llm_calls') = 2)
          => /\ pc = "synth"
             /\ parses = 1
             /\ final_prompt = FinalPrompt(user_query, tool_result)
             /\ final_response' = call_llm(llm_calls'[2])
    \* the first one is made before the parse
    /\ (Len(llm_calls) = 0 /\ Len(llm_calls') = 1)
          => (pc = "select" /\ parses = 0 /\ tool_runs = <<>>)
    \* the history grows after the second call
    /\ conversation_history' # conversation_history => Len(llm_calls) = 2

\* C16: every run that is not interrupted takes its steps in one order: the first
\* gateway call, the parse and the dispatch, the second gateway call on the prompt
\* that holds the dispatch's output, the append, the return of the second call's
\* output; it makes exactly two gateway calls.
C16_FixedOrder == [][C16_Step]_vars

\* the selection response names a tool, so that execute_tool is called
Dispatched == tool_decision.t = "str" /\ ToolTokenAt(tool_decision.s) # 0

\* C17: when a tool was dispatched its output is not empty and the synthesis prompt
\* holds it in the Tool Results block, followed by the instruction to answer from
\* it; the instruction to answer from general knowledge is in the prompt only when
\* no tool was dispatched.
C17_ToolResultsInPrompt ==
    pc \in {"synth", "append", "ret"}
        => /\ Dispatched
                => /\ tool_result # <<>>
                   /\ Contains(final_prompt, <<"Tool Results:", Newline>> \o tool_result
                         \o <<Newline, Newline,
                              "Using the tool results above, answer the user's query accurately and concisely.">>)
           /\ Contains(final_prompt,
                       <<"Answer the user's query based on your knowledge of the inventory system.">>)
                => ~Dispatched

====
